---- MODULE Spec2Model ----
(***************************************************************************)
(* The "Golden" first-person character controller of                       *)
(* src/src/character_controller.rs as a state machine.                     *)
(*                                                                         *)
(* Numbers.  f32 quantities are fixed-point integers: a length, speed or   *)
(* degree x is the integer x * Scale, products are rescaled with FMul and  *)
(* every division truncates toward zero.  Angles are integers in units of  *)
(* ANGLE_EPSILON = 1/512 rad, with PI taken as 1608 units.                 *)
(*                                                                         *)
(* Schedule.  One frame runs the PreUpdate chain (input, look, render,     *)
(* scroll) and then zero or more fixed ticks; a fixed tick is the          *)
(* FixedUpdate chain (spatial_hitter, move, crouch, lean) followed by the  *)
(* physics engine's step.  The engine (shape casts, integration) and the   *)
(* devices (keys, pointer, wheel) are the environment: what they deliver   *)
(* is drawn from the sets of an environment record E.                      *)
(***************************************************************************)
EXTENDS Integers, Sequences, FiniteSets, TLC

VARIABLES
    pc,                  \* the system that runs next
    frame_ticks,         \* fixed ticks run so far in the current frame
    controller,          \* GoldenController (tuning, set at creation)
    input,               \* GoldenControllerInput
    spatial_hits,        \* GoldenControllerSpatialHits
    controller_mutables, \* GoldenControllerMutables
    velocity,            \* LinearVelocity
    external_force,      \* ExternalImpulse accumulated since the last physics step
    damping,             \* LinearDamping
    collider,            \* Collider (shape)
    transform,           \* Transform of the logical player
    render_transform,    \* Transform of the render player
    move_locals,         \* locals of the last fps_controller_move run
    trip,                \* script position of the crouch round-trip scenario
    call,                \* the last application of a pure function, with its arguments
    env                  \* the world the controller lives in (never changes)

vars == <<pc, frame_ticks, controller, input, spatial_hits, controller_mutables, velocity,
          external_force, damping, collider, transform, render_transform,
          move_locals, trip, call, env>>

(***************************************************************************)
(* Fixed-point arithmetic                                                  *)
(***************************************************************************)
Scale == 960

Abs(a) == IF a < 0 THEN -a ELSE a

Sign(a) == IF a > 0 THEN 1 ELSE IF a < 0 THEN -1 ELSE 0

Min(a, b) == IF a <= b THEN a ELSE b

Max(a, b) == IF a >= b THEN a ELSE b

\* f32::clamp
Clamp(a, lo, hi) == IF a < lo THEN lo ELSE IF a > hi THEN hi ELSE a

\* division truncating toward zero, b > 0
Div(a, b) == IF a >= 0 THEN a \div b ELSE -((-a) \div b)

\* the fixed-point product a * b
FMul(a, b) == Div(a * b, Scale)

\* the fixed-point product a * b for a large a >= 0, without overflow
FMulWide(a, b) == (a \div Scale) * b + FMul(a % Scale, b)

\* the fixed-point value of the fraction n / d
Fx(n, d) == Div(n * Scale, d)

RECURSIVE SqrtIter(_, _, _)
SqrtIter(n, lo, hi) ==
    IF hi - lo <= 1 THEN lo
    ELSE LET mid == (lo + hi) \div 2
         IN  IF mid * mid <= n THEN SqrtIter(n, mid, hi) ELSE SqrtIter(n, lo, mid)

\* floor of the square root of n, 0 <= n < 46340^2
ISqrt(n) == SqrtIter(n, 0, 46340)

(***************************************************************************)
(* Vec3                                                                    *)
(***************************************************************************)
Vec3(a, b, c) == [x |-> a, y |-> b, z |-> c]

ZERO == Vec3(0, 0, 0)

UnitY == Vec3(0, Scale, 0)

VAdd(u, v) == Vec3(u.x + v.x, u.y + v.y, u.z + v.z)

VSub(u, v) == Vec3(u.x - v.x, u.y - v.y, u.z - v.z)

\* v * s for a fixed-point scalar s
VScale(v, s) == Vec3(FMul(v.x, s), FMul(v.y, s), FMul(v.z, s))

\* component-wise product
VMul(u, v) == Vec3(FMul(u.x, v.x), FMul(u.y, v.y), FMul(u.z, v.z))

Dot(u, v) == Div(u.x * v.x + u.y * v.y + u.z * v.z, Scale)

Length(v) == ISqrt(v.x * v.x + v.y * v.y + v.z * v.z)

LengthSquared(v) == Div(v.x * v.x + v.y * v.y + v.z * v.z, Scale)

(***************************************************************************)
(* Angles                                                                  *)
(***************************************************************************)
\* angle units per radian: one unit is ANGLE_EPSILON = 0.001953125 = 1/512
AngleScale == 512

ANGLE_EPSILON == 1

PI == 1608

TAU == 2 * PI

FRAC_PI_2 == PI \div 2

FRAC_PI_4 == PI \div 4

\* f32::rem_euclid for a positive modulus
RemEuclid(a, m) == a % m

\* cos and sin of the multiples of pi/4, in fixed point
CosTable == <<Scale, Fx(7071, 10000), 0, -Fx(7071, 10000),
              -Scale, -Fx(7071, 10000), 0, Fx(7071, 10000)>>

Octant(a) == (RemEuclid(a, TAU) \div FRAC_PI_4) + 1

Cos(a) == CosTable[Octant(a)]

Sin(a) == CosTable[Octant(a - FRAC_PI_2)]

(***************************************************************************)
(* Constants of the program                                                *)
(***************************************************************************)
FPS == 120

\* CALC_EPSILON = 0.01 = 1 / CalcEpsilonInv
CalcEpsilonInv == 100

\* |a| > CALC_EPSILON
AboveCalcEpsilon(a) == Abs(a) * CalcEpsilonInv > Scale

\* f32::EPSILON is below one fixed-point unit: a > f32::EPSILON
AboveF32Epsilon(a) == a > 0

\* GoldenController::default
GoldenControllerDefault ==
    [ grounded_distance      |-> Fx(4, 10),
      radius                 |-> Fx(4, 10),
      height                 |-> Fx(1, 1),
      walk_speed             |-> Fx(6, 1),
      mass                   |-> 80,
      crouch_speed           |-> Fx(4, 1),
      air_friction           |-> 0,
      air_damp               |-> Fx(3, 10),
      jump_force             |-> Fx(6, 1),
      forward_speed          |-> Fx(30, 1),
      side_speed             |-> Fx(30, 1),
      air_speed_cap          |-> Fx(2, 1),
      air_acceleration       |-> Fx(9, 1),
      lean_max               |-> Fx(35, 100),
      leaning_speed          |-> Fx(2, 1),
      acceleration           |-> Fx(4, 1),
      traction_normal_cutoff |-> Fx(6, 10),
      friction               |-> 0,
      lean_side_impulse      |-> 65,
      enable_input           |-> TRUE ]

\* GoldenControllerInput::default
GoldenControllerInputDefault ==
    [ jump              |-> FALSE,
      crouch            |-> FALSE,
      pitch             |-> -(TAU \div 12),
      yaw               |-> (TAU * 5) \div 8,
      movement          |-> ZERO,
      lean              |-> 0,
      lean_degree_mod   |-> 0,
      crouch_degree_mod |-> Scale ]

\* GoldenControllerMutables::default (sensitivity is Sensitivity below)
GoldenControllerMutablesDefault ==
    [ crouch_degree |-> 0,
      lean_degree   |-> 0,
      ground_tick   |-> 0,
      pitch         |-> 0,
      yaw           |-> 0 ]

\* sensitivity = 0.001 = 1 / SensitivityInv
SensitivityInv == 1000

\* #[derive(Default)] of GoldenControllerSpatialHits
GoldenControllerSpatialHitsDefault ==
    [ top_up               |-> FALSE,
      bottom_down          |-> FALSE,
      bottom_down_distance |-> 0,
      bottom_hit_normal    |-> ZERO,
      right_wall_dist      |-> <<FALSE, 0>>,
      left_wall_dist       |-> <<FALSE, 0>> ]

\* u8::MAX
U8Max == 255

\* u8 addition that wraps around, as wrapping_add does
WrappingAdd(a, b) == (a + b) % (U8Max + 1)

\* u8::saturating_add
SaturatingAdd(a, b) == Min(a + b, U8Max)

(***************************************************************************)
(* Environments                                                            *)
(***************************************************************************)
NoMouse == [x |-> 0, y |-> 0]

\* one wheel notch
WheelUp == [x |-> 0, y |-> Scale]

WheelDown == [x |-> 0, y |-> -Scale]

\* n wheel events of the same kind in one frame
Notches(ev, n) == [i \in 1..n |-> ev]

\* the wheel events of a frame in which the wheel is spun
ScrollBurst == 5

\* what the casts return in the open: no ground, no ceiling, no wall
OpenAir == [bottom_down_hit |-> <<>>, top_up_hit |-> FALSE,
            right_hit |-> <<>>, left_hit |-> <<>>]

\* Crouching under a ceiling that comes and goes, with the wheel in use.
EnvCrouch ==
    [ Keys    |-> {{}, {"ShiftLeft"}},
      Mouse   |-> {NoMouse},
      Scrolls |-> {<<>>, Notches(WheelUp, ScrollBurst), Notches(WheelDown, ScrollBurst)},
      Casts   |-> {[OpenAir EXCEPT !.top_up_hit = t] : t \in BOOLEAN},
      Vels    |-> {ZERO},
      MayTick |-> TRUE,
      Trip    |-> trip ]

\* a wall at distance d on one side
WallAt(d) == <<d>>

\* the wall distances of the corridor: 0.2 on the right, off the lean grid on
\* the left
RightWall == Fx(2, 10)

LeftWall == 50

\* Leaning in a corridor whose walls come and go, with the wheel in use.
EnvLean ==
    [ Keys    |-> {{}, {"KeyE"}, {"KeyQ"}},
      Mouse   |-> {NoMouse},
      Scrolls |-> {<<>>, Notches(WheelUp, ScrollBurst), Notches(WheelDown, ScrollBurst)},
      Casts   |-> {OpenAir, [OpenAir EXCEPT !.right_hit = WallAt(RightWall)],
                   [OpenAir EXCEPT !.left_hit = WallAt(LeftWall)]},
      Vels    |-> {ZERO},
      MayTick |-> TRUE,
      Trip    |-> trip ]

\* the ground cast hits a surface with this normal at this distance
GroundHit(normal, distance) == <<[normal |-> normal, distance |-> distance]>>

\* level ground, a walkable slope (normal . up = 0.8) and a slope too steep
\* for a foothold (normal . up = 0.6, not above the cutoff)
FlatGround == GroundHit(UnitY, Fx(3, 10))

WalkableSlope == GroundHit(Vec3(Fx(6, 10), Fx(8, 10), 0), Fx(3, 10))

SteepSlope == GroundHit(Vec3(Fx(8, 10), Fx(6, 10), 0), Fx(3, 10))

\* Standing and falling with no key down: the ground comes and goes.
EnvGround ==
    [ Keys    |-> {{}},
      Mouse   |-> {NoMouse},
      Scrolls |-> {<<>>},
      Casts   |-> {OpenAir, [OpenAir EXCEPT !.bottom_down_hit = FlatGround]},
      Vels    |-> {ZERO},
      MayTick |-> TRUE,
      Trip    |-> trip ]

\* the longest run of grounded ticks the jumping world delivers
MaxGroundRun == 3

\* Walking and jumping over level ground and slopes; the engine leaves the
\* body at rest, moving up the walkable slope, or falling.
EnvJump ==
    [ Keys    |-> {{}, {"Space"}, {"KeyW"}, {"KeyW", "Space"}},
      Mouse   |-> {NoMouse},
      Scrolls |-> {<<>>},
      Casts   |-> IF controller_mutables.ground_tick < MaxGroundRun
                  THEN {OpenAir} \cup {[OpenAir EXCEPT !.bottom_down_hit = g] :
                                          g \in {FlatGround, WalkableSlope, SteepSlope}}
                  ELSE {OpenAir},
      Vels    |-> {ZERO, Vec3(-4 * Scale, 3 * Scale, 0), Vec3(0, -5 * Scale, 0)},
      MayTick |-> TRUE,
      Trip    |-> trip ]

\* a ledge along a wall on the left, with or without a floor
Ledge(floor) ==
    [ bottom_down_hit |-> IF floor THEN FlatGround ELSE <<>>,
      top_up_hit      |-> FALSE,
      right_hit       |-> <<>>,
      left_hit        |-> WallAt(LeftWall) ]

\* Walking forward along the ledge, crouching or leaning on the way, one
\* fixed tick to a frame; the floor gives way after MaxGroundRun ticks.
EnvSpeed ==
    [ Keys    |-> {{"KeyW"}, {"KeyW", "ShiftLeft"}, {"KeyW", "KeyQ"}},
      Mouse   |-> {NoMouse},
      Scrolls |-> {<<>>},
      Casts   |-> {Ledge(controller_mutables.ground_tick < MaxGroundRun)},
      Vels    |-> {ZERO},
      MayTick |-> frame_ticks = 0,
      Trip    |-> trip ]

\* the longest hold of the crouch round trip, in fixed ticks
MaxTrip == 3

\* the round trip after the step about to be taken: a crouch tick counts, the
\* key is released at the first input after the last hold tick, and the trip
\* is done after as many release ticks
TripAfter ==
    IF trip.phase = "hold" /\ pc = "crouch" THEN [trip EXCEPT !.n = trip.n + 1]
    ELSE IF trip.phase = "hold" /\ pc = "input" /\ trip.n = trip.N
    THEN [trip EXCEPT !.phase = "release", !.n = 0]
    ELSE IF trip.phase = "release" /\ pc = "crouch"
    THEN [trip EXCEPT !.n = trip.n + 1,
                      !.phase = IF trip.n + 1 = trip.N THEN "done" ELSE "release"]
    ELSE trip

\* Free play as in EnvCrouch, then the round trip: crouch held for N fixed
\* ticks and released for N, wheel untouched, nothing overhead.
EnvTrip ==
    [ Keys    |-> IF trip.phase = "free" THEN {{}, {"ShiftLeft"}}
                  ELSE IF trip.phase = "hold" /\ trip.n < trip.N THEN {{"ShiftLeft"}}
                  ELSE {{}},
      Mouse   |-> {NoMouse},
      Scrolls |-> IF trip.phase = "free"
                  THEN {<<>>, Notches(WheelUp, ScrollBurst),
                        Notches(WheelDown, ScrollBurst)}
                  ELSE {<<>>},
      Casts   |-> IF trip.phase = "free"
                  THEN {[OpenAir EXCEPT !.top_up_hit = t] : t \in BOOLEAN}
                  ELSE {OpenAir},
      Vels    |-> {ZERO},
      MayTick |-> IF trip.phase = "hold" THEN trip.n < trip.N
                  ELSE trip.phase # "done",
      Trip    |-> TripAfter ]

\* the pointer travel of a frame in which the view turns (an eighth of a
\* turn at the default sensitivity) or tilts (about a radian), in pixels
TurnPixels == 786

TiltPixels == 1000

\* Looking around in the open, no key down, one fixed tick to a frame.
EnvLook ==
    [ Keys    |-> {{}},
      Mouse   |-> {[x |-> dx, y |-> dy] : dx \in {-TurnPixels, 0, TurnPixels},
                                          dy \in {-TiltPixels, 0, TiltPixels}},
      Scrolls |-> {<<>>},
      Casts   |-> {OpenAir},
      Vels    |-> {ZERO},
      MayTick |-> frame_ticks = 0,
      Trip    |-> trip ]

\* the wheel events of a frame in which the wheel is spun past the range of
\* a modifier: more than ten notches
ScrollSpin == 12

\* a notch on both wheel axes at once, and a movement too small to count
WheelBoth == [x |-> Scale, y |-> Scale]

WheelTremor == [x |-> 0, y |-> Fx(1, 20)]

\* Spinning the wheel while crouching, leaning or both beside a wall on the left,
\* one fixed tick to a frame.
EnvScroll ==
    [ Keys    |-> {{}, {"ShiftLeft"}, {"KeyQ"}, {"ShiftLeft", "KeyQ"}},
      Mouse   |-> {NoMouse},
      Scrolls |-> {<<>>, <<WheelTremor>>, Notches(WheelBoth, ScrollBurst),
                   Notches(WheelUp, ScrollSpin), Notches(WheelDown, ScrollSpin)},
      Casts   |-> {[OpenAir EXCEPT !.left_hit = WallAt(LeftWall)]},
      Vels    |-> {ZERO},
      MayTick |-> frame_ticks = 0,
      Trip    |-> trip ]

\* a walkable slope whose unit normal (1/3, 2/3, 2/3) is exact in fixed point
ThirdsSlope == GroundHit(Vec3(Fx(1, 3), Fx(2, 3), Fx(2, 3)), Fx(3, 10))

\* Standing or walking on level ground and on the slope; the engine leaves
\* the body at rest, sliding down the slope, or pressed into it with a
\* remainder of 1/320 along z, all exact in fixed point.
EnvSlope ==
    [ Keys    |-> {{}, {"KeyW"}},
      Mouse   |-> {NoMouse},
      Scrolls |-> {<<>>},
      Casts   |-> IF controller_mutables.ground_tick < MaxGroundRun
                  THEN {OpenAir} \cup {[OpenAir EXCEPT !.bottom_down_hit = g] :
                                          g \in {FlatGround, ThirdsSlope}}
                  ELSE {OpenAir},
      Vels    |-> {ZERO, Vec3(Scale, -3 * Scale, -2 * Scale),
                   Vec3(-Scale, -2 * Scale - 3, -2 * Scale + 3)},
      MayTick |-> TRUE,
      Trip    |-> trip ]

\* Crouching and leaning left at once while a wall on the left and a ceiling
\* come and go, wheel untouched, one fixed tick to a frame.
EnvStep ==
    [ Keys    |-> {{}, {"ShiftLeft", "KeyQ"}},
      Mouse   |-> {NoMouse},
      Scrolls |-> {<<>>},
      Casts   |-> {OpenAir, [OpenAir EXCEPT !.left_hit = WallAt(LeftWall)],
                   [OpenAir EXCEPT !.top_up_hit = TRUE]},
      Vels    |-> {ZERO},
      MayTick |-> frame_ticks = 0,
      Trip    |-> trip ]

\* Leaning out and back in the open without turning, the wheel in use, one
\* fixed tick to a frame; the body is at rest, so the engine leaves it where
\* the lean has put it.
EnvPeek ==
    [ Keys    |-> {{}, {"KeyE"}, {"KeyQ"}},
      Mouse   |-> {NoMouse},
      Scrolls |-> {<<>>, Notches(WheelUp, ScrollBurst), Notches(WheelDown, ScrollBurst)},
      Casts   |-> {OpenAir},
      Vels    |-> {ZERO},
      MayTick |-> frame_ticks = 0,
      Trip    |-> trip ]

\* the environment of the current world
E == CASE env = "crouch" -> EnvCrouch
       [] env = "lean" -> EnvLean
       [] env = "ground" -> EnvGround
       [] env = "jump" -> EnvJump
       [] env = "speed" -> EnvSpeed
       [] env = "trip" -> EnvTrip
       [] env = "look" -> EnvLook
       [] env = "scroll" -> EnvScroll
       [] env = "step" -> EnvStep
       [] env = "slope" -> EnvSlope
       [] env = "peek" -> EnvPeek

(***************************************************************************)
(* Keys                                                                    *)
(***************************************************************************)
\* GoldenControllerKeys::default
GoldenControllerKeysDefault ==
    [ key_forward    |-> "KeyW",
      key_back       |-> "KeyS",
      key_left       |-> "KeyA",
      key_right      |-> "KeyD",
      key_lean_left  |-> "KeyQ",
      key_lean_right |-> "KeyE",
      key_crouch     |-> "ShiftLeft",
      key_jump       |-> "Space" ]

\* key_input is the set of the keys that are down
get_pressed(key_input, key) == IF key \in key_input THEN Scale ELSE 0

\* get_axis with the positive key taking precedence
get_axisFirstWins(key_input, key_pos, key_neg) ==
    IF key_pos \in key_input THEN Scale ELSE -get_pressed(key_input, key_neg)

get_axis(key_input, key_pos, key_neg) ==
    get_pressed(key_input, key_pos) - get_pressed(key_input, key_neg)

(***************************************************************************)
(* Collider helpers                                                        *)
(***************************************************************************)
Capsule(half_height, radius) ==
    [shape |-> "capsule", half_height |-> half_height, radius |-> radius]

\* a cylinder of the same extent, and a shape of another family
Cylinder(half_height, radius) ==
    [shape |-> "cylinder", half_height |-> half_height, radius |-> radius]

Cuboid(half_height, radius) ==
    [shape |-> "cuboid", half_height |-> half_height, radius |-> radius]

\* SupportedShape letting every shape through
SupportedShapeAny(c) == TRUE

\* the shapes collider_y_offset and scaled_collider_laterally accept; they
\* panic on any other
SupportedShape(c) == c.shape \in {"cylinder", "capsule"}

\* collider_y_offset taking the capsule's half_height for its whole extent
collider_y_offsetNoCap(c) == c.half_height

\* the y component of collider_y_offset, for a supported shape
collider_y_offset(c) ==
    IF c.shape = "cylinder" THEN c.half_height ELSE c.half_height + c.radius

(***************************************************************************)
(* PreUpdate: fps_controller_input, fps_controller_look,                   *)
(* fps_controller_render, scroll_events                                    *)
(***************************************************************************)
\* the pointer delta of a frame (pixels) times the sensitivity, in angle units
MouseDelta(mouse) ==
    [x |-> Div(mouse.x * AngleScale, SensitivityInv),
     y |-> Div(mouse.y * AngleScale, SensitivityInv)]

WrapYaw(yaw) == IF Abs(yaw) > PI THEN RemEuclid(yaw, TAU) ELSE yaw

\* InputAfter with the pitch left unclamped
InputAfterFreePitch(in, keys, key_input, mouse) ==
    LET mouse_delta == MouseDelta(mouse)
    IN  [in EXCEPT
           !.pitch = in.pitch - mouse_delta.y,
           !.yaw = WrapYaw(in.yaw - mouse_delta.x),
           !.movement = Vec3(get_axis(key_input, keys.key_right, keys.key_left),
                             0,
                             get_axis(key_input, keys.key_forward, keys.key_back)),
           !.lean = get_axis(key_input, keys.key_lean_right, keys.key_lean_left),
           !.jump = keys.key_jump \in key_input,
           !.crouch = keys.key_crouch \in key_input]

InputAfter(in, keys, key_input, mouse) ==
    LET mouse_delta == MouseDelta(mouse)
    IN  [in EXCEPT
           !.pitch = Clamp(in.pitch - mouse_delta.y,
                           -FRAC_PI_2 + ANGLE_EPSILON, FRAC_PI_2 - ANGLE_EPSILON),
           !.yaw = WrapYaw(in.yaw - mouse_delta.x),
           !.movement = Vec3(get_axis(key_input, keys.key_right, keys.key_left),
                             0,
                             get_axis(key_input, keys.key_forward, keys.key_back)),
           !.lean = get_axis(key_input, keys.key_lean_right, keys.key_lean_left),
           !.jump = keys.key_jump \in key_input,
           !.crouch = keys.key_crouch \in key_input]

fps_controller_input ==
    /\ pc = "input"
    /\ \E key_input \in E.Keys, mouse \in E.Mouse :
          input' = InputAfter(input, GoldenControllerKeysDefault, key_input, mouse)
    /\ pc' = "look"
    /\ trip' = E.Trip
    /\ UNCHANGED <<frame_ticks, controller, spatial_hits, controller_mutables, velocity,
                   external_force, damping, collider, transform,
                   render_transform, move_locals, call, env>>

fps_controller_look ==
    /\ pc = "look"
    /\ controller_mutables' =
          [controller_mutables EXCEPT !.pitch = input.pitch, !.yaw = input.yaw]
    /\ pc' = "render"
    /\ trip' = E.Trip
    /\ UNCHANGED <<frame_ticks, controller, input, spatial_hits, velocity, external_force,
                   damping, collider, transform, render_transform,
                   move_locals, call, env>>

\* CameraConfig { height_offset: 0.0 } of the example
CameraHeightOffset == 0

RenderAfter(logical_transform, c, mutables) ==
    [ translation |-> logical_transform.translation,
      height      |-> collider_y_offset(c) + CameraHeightOffset,
      rotation    |-> [yaw   |-> logical_transform.rotation.yaw,
                       roll  |-> logical_transform.rotation.roll,
                       pitch |-> mutables.pitch] ]

\* fps_controller_render writing the camera position into the logical
\* transform as well
fps_controller_renderMovesPlayer ==
    /\ pc = "render"
    /\ render_transform' = RenderAfter(transform, collider, controller_mutables)
    /\ transform' = [transform EXCEPT
                       !.translation = VAdd(transform.translation,
                                            Vec3(0, collider_y_offset(collider), 0))]
    /\ pc' = "scroll"
    /\ trip' = E.Trip
    /\ UNCHANGED <<frame_ticks, controller, input, spatial_hits,
                   controller_mutables, velocity,
                   external_force, damping, collider, move_locals,
                   call, env>>

\* collider_y_offset panics on an unsupported shape before anything is written
fps_controller_render ==
    /\ pc = "render"
    /\ IF SupportedShape(collider)
       THEN /\ render_transform' =
                  RenderAfter(transform, collider, controller_mutables)
            /\ pc' = "scroll"
       ELSE /\ pc' = "panic"
            /\ UNCHANGED render_transform
    /\ trip' = E.Trip
    /\ UNCHANGED <<frame_ticks, controller, input, spatial_hits,
                   controller_mutables, velocity,
                   external_force, damping, collider, transform, move_locals,
                   call, env>>

\* one wheel event adds +-0.1 per axis that moved by more than 0.1
EventShift(ev) ==
    (IF Abs(ev.y) * 10 > Scale THEN Sign(ev.y) * Fx(1, 10) ELSE 0)
    + (IF Abs(ev.x) * 10 > Scale THEN Sign(ev.x) * Fx(1, 10) ELSE 0)

RECURSIVE SumShift(_)
SumShift(evs) == IF evs = <<>> THEN 0 ELSE EventShift(Head(evs)) + SumShift(Tail(evs))

ModShift(evs) == Clamp(SumShift(evs), -Scale, Scale)

\* ScrollAfter with the modifiers left unclamped
ScrollAfterUnclamped(in, evs) ==
    LET mod_shift == ModShift(evs)
    IN  IF Abs(in.lean) * 10 > Scale
        THEN [in EXCEPT !.lean_degree_mod = in.lean_degree_mod + mod_shift]
        ELSE IF in.crouch
        THEN [in EXCEPT !.crouch_degree_mod = in.crouch_degree_mod - mod_shift]
        ELSE in

\* ScrollAfter with the crouch branch taken while leaning as well
ScrollAfterBoth(in, evs) ==
    LET mod_shift == ModShift(evs)
        leaned == IF Abs(in.lean) * 10 > Scale
                  THEN [in EXCEPT !.lean_degree_mod =
                                      Clamp(in.lean_degree_mod + mod_shift, 0, Scale)]
                  ELSE in
    IN  IF in.crouch
        THEN [leaned EXCEPT !.crouch_degree_mod =
                                Clamp(in.crouch_degree_mod - mod_shift, 0, Scale)]
        ELSE leaned

ScrollAfter(in, evs) ==
    LET mod_shift == ModShift(evs)
    IN  IF Abs(in.lean) * 10 > Scale
        THEN [in EXCEPT !.lean_degree_mod =
                            Clamp(in.lean_degree_mod + mod_shift, 0, Scale)]
        ELSE IF in.crouch
        THEN [in EXCEPT !.crouch_degree_mod =
                            Clamp(in.crouch_degree_mod - mod_shift, 0, Scale)]
        ELSE in

scroll_events ==
    /\ pc = "scroll"
    /\ \E evs \in E.Scrolls : input' = ScrollAfter(input, evs)
    /\ pc' = "fixed"
    /\ trip' = E.Trip
    /\ UNCHANGED <<frame_ticks, controller, spatial_hits, controller_mutables, velocity,
                   external_force, damping, collider, transform,
                   render_transform, move_locals, call, env>>

(***************************************************************************)
(* FixedUpdate: fps_controller_spatial_hitter                              *)
(***************************************************************************)
\* HitsAfter with the ground normal left as it was when the ground cast misses
HitsAfterStaleNormal(hits, cast) ==
    [ top_up               |-> cast.top_up_hit,
      bottom_down          |-> cast.bottom_down_hit # <<>>,
      bottom_down_distance |-> IF cast.bottom_down_hit # <<>>
                               THEN cast.bottom_down_hit[1].distance
                               ELSE hits.bottom_down_distance,
      bottom_hit_normal    |-> IF cast.bottom_down_hit # <<>>
                               THEN cast.bottom_down_hit[1].normal
                               ELSE hits.bottom_hit_normal,
      right_wall_dist      |-> IF cast.right_hit # <<>>
                               THEN <<TRUE, cast.right_hit[1]>>
                               ELSE <<FALSE, Scale>>,
      left_wall_dist       |-> IF cast.left_hit # <<>>
                               THEN <<TRUE, cast.left_hit[1]>>
                               ELSE <<FALSE, Scale>> ]

\* A cast is what the four shape casts of one tick return: bottom_down_hit is
\* <<>> (None) or <<[normal, distance]>>, right_hit and left_hit are <<>> or
\* <<distance>>, top_up_hit is whether the upward cast hit.
HitsAfter(hits, cast) ==
    [ top_up               |-> cast.top_up_hit,
      bottom_down          |-> cast.bottom_down_hit # <<>>,
      bottom_down_distance |-> IF cast.bottom_down_hit # <<>>
                               THEN cast.bottom_down_hit[1].distance
                               ELSE hits.bottom_down_distance,
      bottom_hit_normal    |-> IF cast.bottom_down_hit # <<>>
                               THEN cast.bottom_down_hit[1].normal
                               ELSE ZERO,
      right_wall_dist      |-> IF cast.right_hit # <<>>
                               THEN <<TRUE, cast.right_hit[1]>>
                               ELSE <<FALSE, Scale>>,
      left_wall_dist       |-> IF cast.left_hit # <<>>
                               THEN <<TRUE, cast.left_hit[1]>>
                               ELSE <<FALSE, Scale>> ]

fps_controller_spatial_hitter ==
    /\ pc = "probe"
    /\ IF SupportedShape(collider)
       THEN /\ \E cast \in E.Casts : spatial_hits' = HitsAfter(spatial_hits, cast)
            /\ pc' = "move"
       ELSE /\ pc' = "panic"
            /\ UNCHANGED spatial_hits
    /\ trip' = E.Trip
    /\ UNCHANGED <<frame_ticks, controller, input, controller_mutables, velocity,
                   external_force, damping, collider, transform,
                   render_transform, move_locals, call, env>>

(***************************************************************************)
(* FixedUpdate: fps_controller_move                                        *)
(***************************************************************************)
\* MoveToWorld with the z axis left as it is: forward is +Z
MoveToWorldPlusZ(yaw, v) ==
    Vec3(FMul(Cos(yaw), v.x) + FMul(Sin(yaw), v.z),
         v.y,
         -FMul(Sin(yaw), v.x) + FMul(Cos(yaw), v.z))

\* Mat3::from_axis_angle(Vec3::Y, yaw) with its z axis negated, times v
MoveToWorld(yaw, v) ==
    Vec3(FMul(Cos(yaw), v.x) - FMul(Sin(yaw), v.z),
         v.y,
         -FMul(Sin(yaw), v.x) - FMul(Cos(yaw), v.z))

\* the wish direction before normalisation
WishVector(in, ctl) ==
    MoveToWorld(in.yaw, VMul(in.movement, Vec3(ctl.side_speed, 0, ctl.forward_speed)))

\* Normalized dividing by the squared length
NormalizedBySquare(v) ==
    LET len == Length(v)
        sq == FMul(len, len)
    IN  IF AboveF32Epsilon(len)
        THEN Vec3(Div(v.x * Scale, sq), Div(v.y * Scale, sq), Div(v.z * Scale, sq))
        ELSE v

\* wish_direction /= wish_speed, only above f32::EPSILON
Normalized(v) ==
    LET len == Length(v)
    IN  IF AboveF32Epsilon(len)
        THEN Vec3(Div(v.x * Scale, len), Div(v.y * Scale, len), Div(v.z * Scale, len))
        ELSE v

\* MaxSpeed with the crouch factor growing with crouch_degree
MaxSpeedCrouchFaster(ctl, crouch_degree, lean_degree) ==
    Max(FMul(FMul(ctl.walk_speed, Scale + Div(crouch_degree, 2)),
             Scale - Div(Abs(lean_degree), 2)),
        3 * Scale)

\* limit of the move speed while leaning or crouching
MaxSpeed(ctl, crouch_degree, lean_degree) ==
    Max(FMul(FMul(ctl.walk_speed, Scale - Div(crouch_degree, 2)),
             Scale - Div(Abs(lean_degree), 2)),
        3 * Scale)

\* acceleration without the early return
accelerationNoReturn(wish_direction, wish_speed, accel, vel, hz) ==
    LET velocity_projection == Dot(vel, wish_direction)
        add_speed == wish_speed - velocity_projection
        acceleration_speed == Min(Div(FMul(accel, wish_speed), hz), add_speed)
    IN  VScale(wish_direction, acceleration_speed)

\* fn acceleration; dt = 1 / hz
acceleration(wish_direction, wish_speed, accel, vel, hz) ==
    LET velocity_projection == Dot(vel, wish_direction)
        add_speed == wish_speed - velocity_projection
        acceleration_speed == Min(Div(FMul(accel, wish_speed), hz), add_speed)
    IN  IF add_speed <= 0 THEN ZERO ELSE VScale(wish_direction, acceleration_speed)

\* v * mass for the integer mass
TimesMass(v, mass) == Vec3(v.x * mass, v.y * mass, v.z * mass)

\* pi in fixed point
FxPi == Fx(355, 113)

\* the impulse of the ground-height spring, Vec3::Y * f_total * dt
SpringImpulse(ctl, hits, vel) ==
    LET current_height == hits.bottom_down_distance
        target_height == Fx(1, 2)
        height_error == target_height - current_height
        freq == Fx(8, 10)
        damp == Fx(8, 10)
        omega == FMul(FMul(2 * Scale, FxPi), freq)
        k == ctl.mass * FMul(omega, omega)
        c == 2 * ctl.mass * FMul(damp, omega)
        f_spring == FMulWide(k, height_error)
        f_damp == -FMulWide(c, vel.y)
        f_total == f_spring + f_damp + ctl.mass * Fx(981, 100)
    IN  Vec3(0, Div(f_total, FPS), 0)

HasTraction(ctl, hits) == Dot(hits.bottom_hit_normal, UnitY) > ctl.traction_normal_cutoff

\* "Fixes wobbly velocity": |a| < 0.004 becomes 0
Unwobble(a) == IF Abs(a) * 250 < Scale THEN 0 ELSE a

\* GroundTickAfter with the counter reset by a triggered jump
GroundTickAfterJumpReset(ground, jump, ground_tick) ==
    IF ground /\ ~jump THEN SaturatingAdd(ground_tick, 1) ELSE 0

\* ground_tick after a move tick: the jump plays no part in it
GroundTickAfter(ground, jump, ground_tick) ==
    IF ground THEN SaturatingAdd(ground_tick, 1) ELSE 0

\* DampingAfter with the ground value also set in the air
DampingAfterGroundInAir(in, ctl, ground, has_traction) ==
    IF has_traction /\ ~in.jump /\ LengthSquared(in.movement) * 10 < Scale
    THEN ctl.air_damp * 30
    ELSE ctl.air_damp * 10

\* damping.0 after a move tick
DampingAfter(in, ctl, ground, has_traction) ==
    IF ~ground THEN ctl.air_damp
    ELSE IF has_traction /\ ~in.jump /\ LengthSquared(in.movement) * 10 < Scale
    THEN ctl.air_damp * 30
    ELSE ctl.air_damp * 10

\* AccelerationRate with the ground rate on every tick with a ground hit
AccelerationRateOnGround(ctl, ground, has_traction, jump) ==
    IF ground THEN ctl.acceleration ELSE ctl.air_acceleration

\* AccelerationRate with the air rate on a slope without traction
AccelerationRateByTraction(ctl, ground, has_traction, jump) ==
    IF ground /\ has_traction /\ ~jump THEN ctl.acceleration ELSE ctl.air_acceleration

\* the rate handed to fn acceleration: the traction check plays no part in it
AccelerationRate(ctl, ground, has_traction, jump) ==
    IF ground /\ ~jump THEN ctl.acceleration ELSE ctl.air_acceleration

\* JumpTriggered whatever the vertical velocity
JumpTriggeredAnySpeed(in, has_traction, vel) == has_traction /\ in.jump

\* the jump impulse is applied: input.jump && velocity.0.y < 1.0, inside
\* `if has_traction`, with the velocity the normal cancel has left
JumpTriggered(in, has_traction, vel) == has_traction /\ in.jump /\ vel.y < Scale

\* SpringActive with jump held as well
SpringActiveWithJump(in, has_traction) == has_traction

\* the spring impulse is applied: `if !input.jump` inside `if has_traction`
SpringActive(in, has_traction) == has_traction /\ ~in.jump

\* CancelNormal taking the vertical for the normal
CancelNormalAlongUp(vel, normal) == Vec3(vel.x, 0, vel.z)

\* velocity - dot(velocity, normal) * normal
CancelNormal(vel, normal) == VSub(vel, VScale(normal, Dot(vel, normal)))

\* MoveAfter with the jump held back on the tick of landing
MoveAfterLandedFirst(in, ctl, hits, mutables, vel, ext) ==
    LET wish_vector == WishVector(in, ctl)
        wish_direction == Normalized(wish_vector)
        max_speed == MaxSpeed(ctl, mutables.crouch_degree, mutables.lean_degree)
        wish_speed0 == Min(Length(wish_vector), max_speed)
        ground == hits.bottom_down
        air_logic == ~ground \/ in.jump
        wish_speed == IF air_logic THEN Min(wish_speed0, ctl.air_speed_cap)
                      ELSE wish_speed0
        has_traction == ground /\ HasTraction(ctl, hits)
        rate == AccelerationRate(ctl, ground, has_traction, in.jump)
        add == acceleration(wish_direction, wish_speed, rate, vel, FPS)
        spring == SpringActive(in, has_traction)
        vel1 == IF has_traction
                THEN CancelNormal(vel, hits.bottom_hit_normal)
                ELSE vel
        jump == JumpTriggered(in, has_traction, vel1) /\ mutables.ground_tick >= 1
        ext1 == VAdd(ext, TimesMass(add, ctl.mass))
        ext2 == IF spring THEN VAdd(ext1, SpringImpulse(ctl, hits, vel)) ELSE ext1
        ext3 == IF jump
                THEN VAdd(ext2, TimesMass(Vec3(0, ctl.jump_force, 0), ctl.mass))
                ELSE ext2
    IN  [ ground_tick    |-> GroundTickAfter(ground, jump, mutables.ground_tick),
          velocity       |-> Vec3(Unwobble(vel1.x), vel1.y, Unwobble(vel1.z)),
          external_force |-> ext3,
          damping        |-> DampingAfter(in, ctl, ground, has_traction),
          locals         |-> [ wish_direction |-> wish_direction,
                               wish_speed     |-> wish_speed,
                               max_speed      |-> max_speed,
                               rate           |-> rate,
                               add            |-> add,
                               has_traction   |-> has_traction,
                               spring         |-> IF spring THEN 1 ELSE 0,
                               jump           |-> IF jump THEN 1 ELSE 0 ] ]

\* one run of the loop body of fps_controller_move
MoveAfter(in, ctl, hits, mutables, vel, ext) ==
    LET wish_vector == WishVector(in, ctl)
        wish_direction == Normalized(wish_vector)
        max_speed == MaxSpeed(ctl, mutables.crouch_degree, mutables.lean_degree)
        wish_speed0 == Min(Length(wish_vector), max_speed)
        ground == hits.bottom_down
        air_logic == ~ground \/ in.jump
        wish_speed == IF air_logic THEN Min(wish_speed0, ctl.air_speed_cap)
                      ELSE wish_speed0
        has_traction == ground /\ HasTraction(ctl, hits)
        rate == AccelerationRate(ctl, ground, has_traction, in.jump)
        add == acceleration(wish_direction, wish_speed, rate, vel, FPS)
        spring == SpringActive(in, has_traction)
        vel1 == IF has_traction
                THEN CancelNormal(vel, hits.bottom_hit_normal)
                ELSE vel
        jump == JumpTriggered(in, has_traction, vel1)
        ext1 == VAdd(ext, TimesMass(add, ctl.mass))
        ext2 == IF spring THEN VAdd(ext1, SpringImpulse(ctl, hits, vel)) ELSE ext1
        ext3 == IF jump
                THEN VAdd(ext2, TimesMass(Vec3(0, ctl.jump_force, 0), ctl.mass))
                ELSE ext2
    IN  [ ground_tick    |-> GroundTickAfter(ground, jump, mutables.ground_tick),
          velocity       |-> Vec3(Unwobble(vel1.x), vel1.y, Unwobble(vel1.z)),
          external_force |-> ext3,
          damping        |-> DampingAfter(in, ctl, ground, has_traction),
          locals         |-> [ wish_direction |-> wish_direction,
                               wish_speed     |-> wish_speed,
                               max_speed      |-> max_speed,
                               rate           |-> rate,
                               add            |-> add,
                               has_traction   |-> has_traction,
                               spring         |-> IF spring THEN 1 ELSE 0,
                               jump           |-> IF jump THEN 1 ELSE 0 ] ]

fps_controller_move ==
    /\ pc = "move"
    /\ LET r == MoveAfter(input, controller, spatial_hits, controller_mutables,
                          velocity, external_force)
       IN  /\ controller_mutables' =
                 [controller_mutables EXCEPT !.ground_tick = r.ground_tick]
           /\ velocity' = r.velocity
           /\ external_force' = r.external_force
           /\ damping' = r.damping
           /\ move_locals' = r.locals
    /\ pc' = "crouch"
    /\ trip' = E.Trip
    /\ UNCHANGED <<frame_ticks, controller, input, spatial_hits, collider, transform,
                   render_transform, call, env>>

(***************************************************************************)
(* FixedUpdate: fps_controller_crouch                                      *)
(***************************************************************************)
\* CrouchAfter with the step not scaled by dt and the final clamp left out
CrouchAfterUnclamped(in, ctl, hits, crouch_degree) ==
    LET target_crouch == IF in.crouch THEN in.crouch_degree_mod ELSE 0
        step == ctl.crouch_speed
    IN  IF AboveCalcEpsilon(crouch_degree - target_crouch)
        THEN IF crouch_degree < target_crouch
             THEN crouch_degree + step
             ELSE IF crouch_degree > target_crouch /\ ~hits.top_up
             THEN crouch_degree - step
             ELSE crouch_degree
        ELSE target_crouch

\* CrouchAfter standing up whatever the ceiling probe says
CrouchAfterNoCeiling(in, ctl, hits, crouch_degree) ==
    LET target_crouch == IF in.crouch THEN in.crouch_degree_mod ELSE 0
        step == Div(ctl.crouch_speed, FPS)
        moved == IF AboveCalcEpsilon(crouch_degree - target_crouch)
                 THEN IF crouch_degree < target_crouch
                      THEN crouch_degree + step
                      ELSE crouch_degree - step
                 ELSE target_crouch
    IN  Clamp(moved, 0, Scale)

\* CrouchAfter standing up at half the rate of crouching
CrouchAfterSlowRise(in, ctl, hits, crouch_degree) ==
    LET target_crouch == IF in.crouch THEN in.crouch_degree_mod ELSE 0
        step == Div(ctl.crouch_speed, FPS)
        moved == IF AboveCalcEpsilon(crouch_degree - target_crouch)
                 THEN IF crouch_degree < target_crouch
                      THEN crouch_degree + step
                      ELSE IF crouch_degree > target_crouch /\ ~hits.top_up
                      THEN crouch_degree - Div(step, 2)
                      ELSE crouch_degree
                 ELSE target_crouch
    IN  Clamp(moved, 0, Scale)

\* crouch_degree after one run of the loop body of fps_controller_crouch
CrouchAfter(in, ctl, hits, crouch_degree) ==
    LET target_crouch == IF in.crouch THEN in.crouch_degree_mod ELSE 0
        step == Div(ctl.crouch_speed, FPS)
        moved == IF AboveCalcEpsilon(crouch_degree - target_crouch)
                 THEN IF crouch_degree < target_crouch
                      THEN crouch_degree + step
                      ELSE IF crouch_degree > target_crouch /\ ~hits.top_up
                      THEN crouch_degree - step
                      ELSE crouch_degree
                 ELSE target_crouch
    IN  Clamp(moved, 0, Scale)

\* CurrentHeight with the factor 4 of the divisor dropped
CurrentHeightShallow(ctl, crouch_degree) ==
    Div(Div(ctl.height, 2) * Scale, crouch_degree + Scale)

\* (height / 2) / (4 * crouch_degree + 1)
CurrentHeight(ctl, crouch_degree) ==
    Div(Div(ctl.height, 2) * Scale, 4 * crouch_degree + Scale)

\* fps_controller_crouch consuming the crouch request it has served
fps_controller_crouchTakesRequest ==
    /\ pc = "crouch"
    /\ LET degree == CrouchAfter(input, controller, spatial_hits,
                                 controller_mutables.crouch_degree)
       IN  /\ controller_mutables' =
                 [controller_mutables EXCEPT !.crouch_degree = degree]
           /\ collider' = Capsule(CurrentHeight(controller, degree), controller.radius)
    /\ input' = [input EXCEPT !.crouch = FALSE]
    /\ pc' = "lean"
    /\ trip' = E.Trip
    /\ UNCHANGED <<frame_ticks, controller, spatial_hits, velocity, external_force,
                   damping, transform, render_transform, move_locals, call, env>>

fps_controller_crouch ==
    /\ pc = "crouch"
    /\ LET degree == CrouchAfter(input, controller, spatial_hits,
                                 controller_mutables.crouch_degree)
       IN  /\ controller_mutables' =
                 [controller_mutables EXCEPT !.crouch_degree = degree]
           /\ collider' = Capsule(CurrentHeight(controller, degree), controller.radius)
    /\ pc' = "lean"
    /\ trip' = E.Trip
    /\ UNCHANGED <<frame_ticks, controller, input, spatial_hits, velocity, external_force,
                   damping, transform, render_transform, move_locals, call, env>>

(***************************************************************************)
(* FixedUpdate: fps_controller_lean                                        *)
(***************************************************************************)
\* the lean target: the input, blocked by a wall on its side, times the modifier
TargetLean(in, hits) ==
    LET t0 == in.lean
        t1 == IF hits.right_wall_dist[1] /\ t0 > 0 THEN hits.right_wall_dist[2] ELSE t0
        t2 == IF hits.left_wall_dist[1] /\ t1 < 0 THEN -hits.left_wall_dist[2] ELSE t1
    IN  FMul(t2, Scale - in.lean_degree_mod)

\* WallClamp with the nominal range in place of the wall distances
WallClampNominal(hits, lean_degree) == Clamp(lean_degree, -Scale, Scale)

\* lean_degree clamped to the wall distances (old_degree)
WallClamp(hits, lean_degree) ==
    Clamp(lean_degree, -hits.left_wall_dist[2], hits.right_wall_dist[2])

\* LeanAfter without the clamp that follows the step
LeanAfterNoFinalClamp(in, ctl, hits, lean_degree) ==
    LET lean_step == Div(ctl.leaning_speed, FPS)
        target_lean == TargetLean(in, hits)
        old_degree == WallClamp(hits, lean_degree)
    IN  IF AboveCalcEpsilon(old_degree - target_lean)
        THEN old_degree + lean_step * Sign(target_lean - old_degree)
        ELSE target_lean

\* LeanAfter without the deadzone: it steps however close the target is
LeanAfterNoDeadzone(in, ctl, hits, lean_degree) ==
    LET lean_step == Div(ctl.leaning_speed, FPS)
        target_lean == TargetLean(in, hits)
        old_degree == WallClamp(hits, lean_degree)
    IN  WallClamp(hits, old_degree + lean_step * Sign(target_lean - old_degree))

\* LeanAfter going to the target at once
LeanAfterSnap(in, ctl, hits, lean_degree) == WallClamp(hits, TargetLean(in, hits))

\* lean_degree after one run of the loop body of fps_controller_lean
LeanAfter(in, ctl, hits, lean_degree) ==
    LET lean_step == Div(ctl.leaning_speed, FPS)
        target_lean == TargetLean(in, hits)
        old_degree == WallClamp(hits, lean_degree)
        stepped == IF AboveCalcEpsilon(old_degree - target_lean)
                   THEN old_degree + lean_step * Sign(target_lean - old_degree)
                   ELSE target_lean
    IN  WallClamp(hits, stepped)

\* yaw_rotation * Vec3::X
RightDir(yaw) == Vec3(Cos(yaw), 0, -Sin(yaw))

\* LeanShift pushing to the right whichever way the lean moved
LeanShiftOutward(in, ctl, degree_change) ==
    LET right_dir == RightDir(in.yaw)
        k == ctl.lean_side_impulse * Abs(degree_change)
    IN  Vec3(right_dir.x * k, right_dir.y * k, right_dir.z * k)

\* right_dir * lean_side_impulse * degree_change * dt, kept exact: the unit of a
\* translation is 1 / (Scale * Scale * FPS)
LeanShift(in, ctl, degree_change) ==
    LET right_dir == RightDir(in.yaw)
        k == ctl.lean_side_impulse * degree_change
    IN  Vec3(right_dir.x * k, right_dir.y * k, right_dir.z * k)

fps_controller_lean ==
    /\ pc = "lean"
    /\ LET old_degree == WallClamp(spatial_hits, controller_mutables.lean_degree)
           degree == LeanAfter(input, controller, spatial_hits,
                               controller_mutables.lean_degree)
           lean_amount == FMul(degree, controller.lean_max)
       IN  /\ controller_mutables' =
                 [controller_mutables EXCEPT !.lean_degree = degree]
           /\ transform' =
                 [ translation |->
                       VAdd(transform.translation,
                            LeanShift(input, controller, degree - old_degree)),
                   rotation    |-> [yaw |-> input.yaw, roll |-> -lean_amount] ]
    /\ pc' = "physics"
    /\ trip' = E.Trip
    /\ UNCHANGED <<frame_ticks, controller, input, spatial_hits, velocity, external_force,
                   damping, collider, render_transform, move_locals, call, env>>

(***************************************************************************)
(* The engine: the physics step after a fixed tick, and the frame loop     *)
(***************************************************************************)
\* The step integrates the body: the velocity it leaves is the engine's, the
\* accumulated impulse is consumed, and the body is where the engine puts it
\* (translations are kept relative to that place, except in the world that
\* follows the body at rest).
PhysicsStep ==
    /\ pc = "physics"
    /\ \E v \in E.Vels : velocity' = v
    /\ external_force' = ZERO
    /\ transform' = [transform EXCEPT
                       !.translation = IF env = "peek" THEN transform.translation
                                       ELSE ZERO]
    /\ pc' = "fixed"
    /\ trip' = E.Trip
    /\ UNCHANGED <<frame_ticks, controller, input, spatial_hits,
                   controller_mutables, damping,
                   collider, render_transform, move_locals, call, env>>

\* the most fixed ticks the loop runs in one frame
MaxTicksPerFrame == 2

\* RunFixedTick with the tick starting at the solver, the probe left out
RunFixedTickSkipsProbe ==
    /\ pc = "fixed"
    /\ E.MayTick
    /\ frame_ticks < MaxTicksPerFrame
    /\ frame_ticks' = frame_ticks + 1
    /\ pc' = "move"
    /\ trip' = E.Trip
    /\ UNCHANGED <<controller, input, spatial_hits, controller_mutables, velocity,
                   external_force, damping, collider, transform,
                   render_transform, move_locals, call, env>>

\* RunFixedMainLoop starts another fixed tick
RunFixedTick ==
    /\ pc = "fixed"
    /\ E.MayTick
    /\ frame_ticks < MaxTicksPerFrame
    /\ frame_ticks' = frame_ticks + 1
    /\ pc' = "probe"
    /\ trip' = E.Trip
    /\ UNCHANGED <<controller, input, spatial_hits, controller_mutables, velocity,
                   external_force, damping, collider, transform,
                   render_transform, move_locals, call, env>>

\* the frame ends and the next one starts with PreUpdate
EndFrame ==
    /\ pc = "fixed"
    /\ frame_ticks' = 0
    /\ pc' = "input"
    /\ trip' = E.Trip
    /\ UNCHANGED <<controller, input, spatial_hits, controller_mutables, velocity,
                   external_force, damping, collider, transform,
                   render_transform, move_locals, call, env>>

(***************************************************************************)
(* Initial state: the bundle of the example's spawn                        *)
(***************************************************************************)
NoCall == [fn |-> "none"]

NoTrip == [phase |-> "free", start |-> 0, N |-> 0, n |-> 0]

NoLocals ==
    [ wish_direction |-> ZERO, wish_speed |-> 0, max_speed |-> 0, rate |-> 0,
      add |-> ZERO, has_traction |-> FALSE, spring |-> 0, jump |-> 0 ]

InitBundle(world, ctl, shape) ==
    /\ env = world
    /\ pc = "input"
    /\ frame_ticks = 0
    /\ controller = ctl
    /\ input = GoldenControllerInputDefault
    /\ spatial_hits = GoldenControllerSpatialHitsDefault
    /\ controller_mutables = GoldenControllerMutablesDefault
    /\ velocity = ZERO
    /\ external_force = ZERO
    /\ damping = Fx(1, 2)
    /\ collider = shape
    /\ transform = [translation |-> ZERO, rotation |-> [yaw |-> 0, roll |-> 0]]
    /\ render_transform = [translation |-> ZERO, height |-> 0,
                           rotation |-> [yaw |-> 0, roll |-> 0, pitch |-> 0]]
    /\ move_locals = NoLocals
    /\ trip = NoTrip
    /\ call = NoCall

\* the bundle with the capsule of the example
InitWith(world, ctl) ==
    InitBundle(world, ctl, Capsule(Div(ctl.height, 2), ctl.radius))

InitCrouch == InitWith("crouch", GoldenControllerDefault)

\* one step of the schedule
Next ==
    \/ fps_controller_input
    \/ fps_controller_look
    \/ fps_controller_render
    \/ scroll_events
    \/ RunFixedTick
    \/ EndFrame
    \/ fps_controller_spatial_hitter
    \/ fps_controller_move
    \/ fps_controller_crouch
    \/ fps_controller_lean
    \/ PhysicsStep


SpecCrouch == InitCrouch /\ [][Next]_vars

InitLean == InitWith("lean", GoldenControllerDefault)

SpecLean == InitLean /\ [][Next]_vars

InitGround == InitWith("ground", GoldenControllerDefault)

SpecGround == InitGround /\ [][Next]_vars

InitJump == InitWith("jump", GoldenControllerDefault)

SpecJump == InitJump /\ [][Next]_vars

InitSpeed == InitWith("speed", GoldenControllerDefault)

SpecSpeed == InitSpeed /\ [][Next]_vars

InitLook == InitWith("look", GoldenControllerDefault)

SpecLook == InitLook /\ [][Next]_vars

InitScroll == InitWith("scroll", GoldenControllerDefault)

SpecScroll == InitScroll /\ [][Next]_vars

InitStep == InitWith("step", GoldenControllerDefault)

SpecStep == InitStep /\ [][Next]_vars

InitSlope == InitWith("slope", GoldenControllerDefault)

SpecSlope == InitSlope /\ [][Next]_vars

\* the crouching world entered with a collider of any family
InitShape ==
    \E make \in {"capsule", "cylinder", "cuboid"} :
        LET half_height == Div(GoldenControllerDefault.height, 2)
            radius == GoldenControllerDefault.radius
        IN  InitBundle("crouch", GoldenControllerDefault,
                       CASE make = "capsule" -> Capsule(half_height, radius)
                         [] make = "cylinder" -> Cylinder(half_height, radius)
                         [] make = "cuboid" -> Cuboid(half_height, radius))

SpecShape == InitShape /\ [][Next]_vars

\* a step of the schedule seen through pc alone: every step of Next moves
\* pc, and some step of Next is possible wherever pc is not "panic"
Runs ==
    /\ pc # "panic"
    /\ pc' \in {"input", "look", "render", "scroll", "fixed", "probe", "move",
                "crouch", "lean", "physics", "panic"}
    /\ pc' # pc

\* The frame loop never stops running its systems, and the fixed timestep
\* comes due again and again as time passes: fixed ticks keep being run.
Scheduling == WF_pc(Runs) /\ SF_vars(RunFixedTick)

SpecLeanForever == SpecLean /\ Scheduling

SpecCrouchForever == SpecCrouch /\ Scheduling

InitPeek == InitWith("peek", GoldenControllerDefault)

SpecPeek == InitPeek /\ [][Next]_vars

InitTrip == InitWith("trip", GoldenControllerDefault)

\* the player starts the round trip at a frame boundary: N ticks of crouch
\* held, from the crouch_degree of the moment
BeginTrip ==
    /\ pc = "input"
    /\ trip.phase = "free"
    /\ \E N \in 1..MaxTrip :
          trip' = [ phase |-> "hold", start |-> controller_mutables.crouch_degree,
                    N |-> N, n |-> 0 ]
    /\ UNCHANGED <<pc, frame_ticks, controller, input, spatial_hits,
                   controller_mutables, velocity, external_force, damping,
                   collider, transform, render_transform, move_locals, call, env>>

NextTrip ==
    \/ fps_controller_input
    \/ fps_controller_look
    \/ fps_controller_render
    \/ scroll_events
    \/ RunFixedTick
    \/ EndFrame
    \/ fps_controller_spatial_hitter
    \/ fps_controller_move
    \/ fps_controller_crouch
    \/ fps_controller_lean
    \/ PhysicsStep
    \/ BeginTrip

SpecTrip == InitTrip /\ [][NextTrip]_vars

(***************************************************************************)
(* The acceleration step on its own: fps_controller_move's wish direction  *)
(* and fn acceleration, called on arguments drawn from small sets          *)
(***************************************************************************)
\* the key axes, the yaws (multiples of pi/4), the speeds, the rates, the
\* velocities and the tick rates the step is called with
CallMovements == {Vec3(x, 0, z) : x, z \in {-Scale, 0, Scale}}

CallYaws == {0, FRAC_PI_4, FRAC_PI_2, PI}

CallSpeeds == {0, 2 * Scale, 3 * Scale, 6 * Scale, 7 * Scale}

CallRates == {4 * Scale, 9 * Scale, 10 * Scale}

CallVelocities ==
    { ZERO, Vec3(0, 0, -7 * Scale), Vec3(0, 0, -8 * Scale), Vec3(0, 0, 500 - 7 * Scale),
      Vec3(3 * Scale, 0, -4 * Scale), Vec3(-2 * Scale, Scale, 5 * Scale) }

CallHz == {FPS, 64}

InitAccel ==
    /\ env = "crouch"
    /\ pc = "call"
    /\ frame_ticks = 0
    /\ controller = GoldenControllerDefault
    /\ input = GoldenControllerInputDefault
    /\ spatial_hits = GoldenControllerSpatialHitsDefault
    /\ controller_mutables = GoldenControllerMutablesDefault
    /\ velocity = ZERO
    /\ external_force = ZERO
    /\ damping = Fx(1, 2)
    /\ collider = Capsule(Div(controller.height, 2), controller.radius)
    /\ transform = [translation |-> ZERO, rotation |-> [yaw |-> 0, roll |-> 0]]
    /\ render_transform = [translation |-> ZERO, height |-> 0,
                           rotation |-> [yaw |-> 0, roll |-> 0, pitch |-> 0]]
    /\ move_locals = NoLocals
    /\ trip = NoTrip
    /\ \E movement \in CallMovements, yaw \in CallYaws, wish_speed \in CallSpeeds,
          accel \in CallRates, vel \in CallVelocities, hz \in CallHz :
          call = [ fn |-> "args", movement |-> movement, yaw |-> yaw,
                   wish_speed |-> wish_speed, accel |-> accel, velocity |-> vel,
                   hz |-> hz, wish_direction |-> ZERO, add |-> ZERO,
                   impulse |-> ZERO ]

\* the first lines of the loop body of fps_controller_move: the wish direction
WishDirectionCall ==
    /\ call.fn = "args"
    /\ call' = [call EXCEPT
                  !.fn = "wish",
                  !.wish_direction =
                      Normalized(WishVector([movement |-> call.movement,
                                             yaw |-> call.yaw], controller))]
    /\ UNCHANGED <<pc, frame_ticks, controller, input, spatial_hits,
                   controller_mutables, velocity, external_force, damping,
                   collider, transform, render_transform, move_locals, trip, env>>

\* the call of fn acceleration and the impulse add * mass made of its result
AccelerationCall ==
    /\ call.fn = "wish"
    /\ LET add == acceleration(call.wish_direction, call.wish_speed, call.accel,
                               call.velocity, call.hz)
       IN  call' = [call EXCEPT !.fn = "done", !.add = add,
                                !.impulse = TimesMass(add, controller.mass)]
    /\ UNCHANGED <<pc, frame_ticks, controller, input, spatial_hits,
                   controller_mutables, velocity, external_force, damping,
                   collider, transform, render_transform, move_locals, trip, env>>

NextAccel ==
    \/ WishDirectionCall
    \/ AccelerationCall

SpecAccel == InitAccel /\ [][NextAccel]_vars

(***************************************************************************)
(* fps_controller_input over two controllers                               *)
(***************************************************************************)
\* the key states of a frame: single keys, both keys of an axis, and mixes
PairKeys ==
    {{}, {"KeyA", "KeyE"}, {"KeyW", "KeyS", "KeyD"}, {"KeyS", "KeyQ"},
     {"KeyA", "KeyD", "KeyQ", "KeyE", "KeyW"}}

\* Two players with the default bundle; call holds the input snapshot of
\* each, the order in which the query yields them, the keys and the pointer
\* delta of the frame, and the pointer events the system's reader has not
\* read yet.
InitPair ==
    /\ env = "look"
    /\ pc = "call"
    /\ frame_ticks = 0
    /\ controller = GoldenControllerDefault
    /\ input = GoldenControllerInputDefault
    /\ spatial_hits = GoldenControllerSpatialHitsDefault
    /\ controller_mutables = GoldenControllerMutablesDefault
    /\ velocity = ZERO
    /\ external_force = ZERO
    /\ damping = Fx(1, 2)
    /\ collider = Capsule(Div(controller.height, 2), controller.radius)
    /\ transform = [translation |-> ZERO, rotation |-> [yaw |-> 0, roll |-> 0]]
    /\ render_transform = [translation |-> ZERO, height |-> 0,
                           rotation |-> [yaw |-> 0, roll |-> 0, pitch |-> 0]]
    /\ move_locals = NoLocals
    /\ trip = NoTrip
    /\ call = [ fn        |-> "spawn",
                inputs    |-> [p \in {1, 2} |-> GoldenControllerInputDefault],
                before    |-> [p \in {1, 2} |-> GoldenControllerInputDefault],
                order     |-> <<>>,
                key_input |-> {},
                mouse     |-> NoMouse,
                unread    |-> NoMouse ]

\* the system is run for a frame: the query yields the players in some order
BeginInput ==
    /\ call.order = <<>>
    /\ \E key_input \in PairKeys, order \in {<<1, 2>>, <<2, 1>>},
          mouse \in {NoMouse, [x |-> TurnPixels, y |-> TiltPixels]} :
          call' = [call EXCEPT !.fn = "input",
                               !.before = call.inputs,
                               !.order = order,
                               !.key_input = key_input,
                               !.mouse = mouse,
                               !.unread = mouse]
    /\ UNCHANGED <<pc, frame_ticks, controller, input, spatial_hits,
                   controller_mutables, velocity, external_force, damping,
                   collider, transform, render_transform, move_locals, trip, env>>

\* one run of the loop body: mouse_events.read() inside the loop hands over
\* the events not read yet and leaves none for the players that follow
InputIteration ==
    /\ call.order # <<>>
    /\ LET p == Head(call.order)
       IN  call' = [call EXCEPT
                      !.inputs[p] = InputAfter(call.inputs[p],
                                               GoldenControllerKeysDefault,
                                               call.key_input, call.unread),
                      !.unread = NoMouse,
                      !.order = Tail(call.order)]
    /\ UNCHANGED <<pc, frame_ticks, controller, input, spatial_hits,
                   controller_mutables, velocity, external_force, damping,
                   collider, transform, render_transform, move_locals, trip, env>>

NextPair ==
    \/ BeginInput
    \/ InputIteration

SpecPair == InitPair /\ [][NextPair]_vars

(***************************************************************************)
(* Claims on crouching                                                     *)
(***************************************************************************)
\* C1: in every reachable state, whatever the crouch key, the wheel and the
\* ceiling probe did, crouch_degree is within [0, 1].
C1_CrouchDegreeInRange ==
    /\ controller_mutables.crouch_degree >= 0
    /\ controller_mutables.crouch_degree <= Scale

\* a crouch tick has just run and left the controller fully crouched
C1_Witness ==
    /\ pc = "lean"
    /\ controller_mutables.crouch_degree = Scale
    /\ input.crouch

\* C6: a crouch tick whose ceiling probe reports an obstruction neither lowers
\* crouch_degree nor grows the collider half-height, and crouch_degree gets
\* back to 0 only in a crouch tick whose ceiling probe reports none.
C6_CeilingBlocksStandUp ==
    [][ /\ (pc = "crouch" /\ spatial_hits.top_up)
           => /\ controller_mutables'.crouch_degree >= controller_mutables.crouch_degree
              /\ collider'.half_height <= collider.half_height
        /\ (controller_mutables.crouch_degree > 0 /\ controller_mutables'.crouch_degree = 0)
           => (pc = "crouch" /\ ~spatial_hits.top_up) ]_vars

\* a crouch tick has just run with the key released under a ceiling, and the
\* controller is still crouched
C6_Witness ==
    /\ pc = "lean"
    /\ spatial_hits.top_up
    /\ ~input.crouch
    /\ controller_mutables.crouch_degree > 0
    /\ collider.half_height < Div(controller.height, 2)

(***************************************************************************)
(* Claims on leaning                                                       *)
(***************************************************************************)
\* C2: in every reachable state, whatever the lean keys, the wheel and the
\* wall probes (no hit reported as distance 1, hits within [0, 1]) did,
\* lean_degree is within [-1, 1].
C2_LeanDegreeInRange ==
    /\ controller_mutables.lean_degree >= -Scale
    /\ controller_mutables.lean_degree <= Scale

\* a lean tick has just run and left the controller leaning fully to the right
C2_Witness ==
    /\ pc = "physics"
    /\ input.lean = Scale
    /\ controller_mutables.lean_degree = Scale

\* C3: after a lean tick whose probe (the one of the same fixed tick) reports
\* a right wall at distance d, lean_degree <= d; with a left wall at distance
\* d, lean_degree >= -d; whatever the lean input and the lean_degree before.
C3_LeanBoundedByWall ==
    pc = "physics"
    => /\ spatial_hits.right_wall_dist[1]
          => controller_mutables.lean_degree <= spatial_hits.right_wall_dist[2]
       /\ spatial_hits.left_wall_dist[1]
          => controller_mutables.lean_degree >= -spatial_hits.left_wall_dist[2]

\* lean input +1 against a right wall at 0.2: the lean tick has left
\* lean_degree at 0.2
C3_Witness ==
    /\ pc = "physics"
    /\ input.lean = Scale
    /\ input.lean_degree_mod = 0
    /\ spatial_hits.right_wall_dist = <<TRUE, Fx(2, 10)>>
    /\ controller_mutables.lean_degree = Fx(2, 10)

(***************************************************************************)
(* Claims on the ground counter and the jump                               *)
(***************************************************************************)
\* C4: a move tick leaves ground_tick at 0 exactly when its ground probe
\* reported no hit; with a ground hit it adds 1, and at 255 (the maximum of a
\* u8) it stays at 255 instead of wrapping around.
C4_GroundTickSaturates ==
    [][ pc = "move"
        => /\ controller_mutables'.ground_tick = 0 <=> ~spatial_hits.bottom_down
           /\ spatial_hits.bottom_down
              => controller_mutables'.ground_tick =
                    IF controller_mutables.ground_tick < U8Max
                    THEN controller_mutables.ground_tick + 1
                    ELSE U8Max ]_vars

\* a move tick with a ground hit has just run and the counter is at 255
C4_Witness ==
    /\ pc = "crouch"
    /\ spatial_hits.bottom_down
    /\ controller_mutables.ground_tick = U8Max

\* C5 as claimed: the move tick that applies the jump impulse resets the jump
\* gate, ground_tick, to 0.
C5_JumpResetsGate ==
    (pc = "crouch" /\ move_locals.jump = 1) => controller_mutables.ground_tick = 0

\* C5 as amended: a move tick applies the jump impulse, once and of size
\* mass * jump_force upward, exactly when the ground probe hit a walkable
\* surface, jump is held and the vertical velocity after the normal cancel is
\* below 1; no ground_tick threshold is consulted, and the jump does not reset
\* ground_tick: it is incremented on every tick with a ground hit, jump or
\* not, and reset only by a tick without one.
C5_JumpLeavesGate ==
    [][ pc = "move"
        => LET triggered == move_locals'.jump = 1
           IN  /\ move_locals'.jump \in {0, 1}
               /\ triggered <=> /\ spatial_hits.bottom_down
                                /\ Dot(spatial_hits.bottom_hit_normal, UnitY)
                                      > controller.traction_normal_cutoff
                                /\ input.jump
                                /\ velocity'.y < Scale
               /\ triggered
                  => external_force'.y
                        = external_force.y + controller.mass * controller.jump_force
               /\ spatial_hits.bottom_down
                  => controller_mutables'.ground_tick
                        = Min(controller_mutables.ground_tick + 1, U8Max)
               /\ ~spatial_hits.bottom_down => controller_mutables'.ground_tick = 0
      ]_vars

\* the controller has been on walkable ground for at least two ticks and the
\* move tick that has just run applied the jump impulse
C5_Witness ==
    /\ pc = "crouch"
    /\ move_locals.jump = 1
    /\ input.jump
    /\ controller_mutables.ground_tick >= 2
    /\ external_force.y = controller.mass * controller.jump_force

(***************************************************************************)
(* Claims on the speed cap                                                 *)
(***************************************************************************)
\* the values crouch_degree and lean_degree are compared against
CrouchGrid == {Div(k * Scale, 30) : k \in 0..30}

LeanGrid == {Div(k * Scale, 60) : k \in -60..60}

\* C8: after every move tick the wish_speed handed to the acceleration step
\* is <= max_speed; max_speed is the limit computed from crouch_degree and
\* lean_degree, no larger for any deeper crouch or any wider lean to either
\* side, and below the upright limit whenever crouched or leaning.
C8_SpeedCap ==
    pc = "crouch"
    => LET ctl == controller
           c == controller_mutables.crouch_degree
           l == controller_mutables.lean_degree
       IN  /\ move_locals.wish_speed <= move_locals.max_speed
           /\ move_locals.max_speed = MaxSpeed(ctl, c, l)
           /\ \A c2 \in CrouchGrid : c2 >= c => MaxSpeed(ctl, c2, l) <= MaxSpeed(ctl, c, l)
           /\ \A l2 \in LeanGrid :
                 Abs(l2) >= Abs(l) => MaxSpeed(ctl, c, l2) <= MaxSpeed(ctl, c, l)
           /\ (c > 0 \/ l # 0) => move_locals.max_speed < MaxSpeed(ctl, 0, 0)

\* a move tick has just run on the ground, forward held, half crouched and
\* leaning: the wish speed is the lowered limit
C8_Witness ==
    /\ pc = "crouch"
    /\ spatial_hits.bottom_down
    /\ input.movement.z = Scale
    /\ controller_mutables.crouch_degree >= Fx(1, 2)
    /\ controller_mutables.lean_degree # 0
    /\ move_locals.wish_speed = move_locals.max_speed
    /\ move_locals.max_speed < controller.walk_speed

(***************************************************************************)
(* Claims on the acceleration step                                         *)
(***************************************************************************)
\* C9: whenever dot(velocity, wish_direction) >= wish_speed the acceleration
\* step returns the zero vector; otherwise it returns wish_direction times
\* min(acceleration * wish_speed * dt, wish_speed - dot(velocity,
\* wish_direction)); so the speed along the wish direction after the step is
\* no more than wish_speed, or than what it was before the step.
C9_NoOverAcceleration ==
    call.fn = "done"
    => LET projection == Dot(call.velocity, call.wish_direction)
           after == VAdd(call.velocity, call.add)
       IN  /\ projection >= call.wish_speed => call.add = ZERO
           /\ projection < call.wish_speed
              => call.add = VScale(call.wish_direction,
                                   Min(Div(FMul(call.accel, call.wish_speed), call.hz),
                                       call.wish_speed - projection))
           /\ Dot(after, call.wish_direction) <= Max(call.wish_speed, projection)

\* the step was called with the velocity short of wish_speed by less than
\* acceleration * wish_speed * dt, and closed exactly that gap
C9_Witness ==
    /\ call.fn = "done"
    /\ call.wish_direction = Vec3(0, 0, -Scale)
    /\ call.velocity = Vec3(0, 0, 500 - 7 * Scale)
    /\ call.wish_speed = 7 * Scale
    /\ call.add = Vec3(0, 0, -500)

\* the arguments of the scenario: full forward, yaw 0, velocity 0,
\* acceleration 10, wish_speed 7, dt = 1/64
Scenario ==
    /\ call.movement = Vec3(0, 0, Scale)
    /\ call.yaw = 0
    /\ call.velocity = ZERO
    /\ call.accel = 10 * Scale
    /\ call.wish_speed = 7 * Scale
    /\ call.hz = 64

C7_RoundTrip ==
    trip.phase = "done" => controller_mutables.crouch_degree = trip.start

\* C7 as amended: the round trip brings crouch_degree back to the value it
\* started from exactly when it started standing, or when the N hold ticks
\* had room to rise in full below the target crouch_degree_mod; in every
\* other case it ends below where it started.
C7_RoundTripWhenRoom ==
    trip.phase = "done"
    => LET step == Div(controller.crouch_speed, FPS)
           room == trip.start + trip.N * step <= input.crouch_degree_mod
       IN  /\ (trip.start = 0 \/ room) <=> controller_mutables.crouch_degree = trip.start
           /\ controller_mutables.crouch_degree <= trip.start

\* a round trip of at least two ticks each way from a partial crouch has
\* come back to where it started
C7_Witness ==
    /\ trip.phase = "done"
    /\ trip.N >= 2
    /\ trip.start > 0
    /\ controller_mutables.crouch_degree = trip.start

(***************************************************************************)
(* Claims on the air and the ground                                        *)
(***************************************************************************)
\* C11: a move tick whose ground probe reported no hit resets ground_tick to
\* 0 and sets the damping to air_damp; a move tick with a ground hit sets it
\* to 10 * air_damp, or to 30 * air_damp with traction, no jump and no
\* movement input, and never to air_damp.
C11_AirAndGroundDamping ==
    [][ pc = "move"
        => /\ ~spatial_hits.bottom_down
              => /\ controller_mutables'.ground_tick = 0
                 /\ damping' = controller.air_damp
           /\ spatial_hits.bottom_down
              => /\ damping' # controller.air_damp
                 /\ damping' =
                       IF /\ Dot(spatial_hits.bottom_hit_normal, UnitY)
                                > controller.traction_normal_cutoff
                          /\ ~input.jump
                          /\ input.movement = ZERO
                       THEN 30 * controller.air_damp
                       ELSE 10 * controller.air_damp ]_vars

\* falling at (0, -5, 0) with no ground hit: the
\* move tick has reset ground_tick and chosen the air damping
C11_Witness ==
    /\ pc = "crouch"
    /\ ~spatial_hits.bottom_down
    /\ velocity = Vec3(0, -5 * Scale, 0)
    /\ controller_mutables.ground_tick = 0
    /\ damping = controller.air_damp

\* the ground probe hit a surface whose normal passes the traction cutoff
Walkable ==
    /\ spatial_hits.bottom_down
    /\ Dot(spatial_hits.bottom_hit_normal, UnitY) > controller.traction_normal_cutoff

C13_NoHitIsAirborne ==
    [][ /\ ~spatial_hits'.bottom_down => spatial_hits'.bottom_hit_normal = ZERO
        /\ (pc = "move" /\ ~spatial_hits.bottom_down)
           => /\ velocity' = Vec3(Unwobble(velocity.x), velocity.y, Unwobble(velocity.z))
              /\ move_locals'.spring = 0
              /\ move_locals'.jump = 0
              /\ external_force' =
                    VAdd(external_force, TimesMass(move_locals'.add, controller.mass))
      ]_vars

\* the ground was walkable a tick ago, the probe now reports no hit while
\* jump is held and the body is falling, and the move tick has run
C13_Witness ==
    /\ pc = "crouch"
    /\ ~spatial_hits.bottom_down
    /\ spatial_hits.bottom_down_distance > 0
    /\ spatial_hits.bottom_hit_normal = ZERO
    /\ input.jump
    /\ velocity.y < 0
    /\ external_force.y = 0

\* C14: after each probe tick every field of the probe result (ground hit
\* flag, distance and normal, ceiling flag, wall flags and distances) is
\* what that tick's casts alone determine, the same as they would give on a
\* freshly built result; no field keeps a value from an earlier tick.
C14_ProbeHasNoMemory ==
    [][ (pc = "probe" /\ pc' = "move")
        => \E cast \in E.Casts :
              spatial_hits' = HitsAfter(GoldenControllerSpatialHitsDefault, cast) ]_vars

(***************************************************************************)
(* Claims on the collider                                                  *)
(***************************************************************************)
\* C15: after every crouch tick the collider is a capsule of the configured
\* radius with half-height (height / 2) / (4 * crouch_degree + 1): height / 2
\* standing, height / 10 fully crouched, and strictly smaller for every
\* deeper crouch_degree, strictly larger for every shallower one.
C15_ColliderFollowsCrouch ==
    pc = "lean"
    => LET c == controller_mutables.crouch_degree
           half == Div(controller.height, 2)
       IN  /\ collider.shape = "capsule"
           /\ collider.radius = controller.radius
           /\ collider.half_height = Div(half * Scale, 4 * c + Scale)
           /\ c = 0 => collider.half_height = half
           /\ c = Scale => collider.half_height = Div(controller.height, 10)
           /\ \A c2 \in CrouchGrid :
                 /\ c2 > c => CurrentHeight(controller, c2) < collider.half_height
                 /\ c2 < c => CurrentHeight(controller, c2) > collider.half_height

\* a crouch tick has just left the controller fully crouched, with a capsule
\* of a fifth of the standing half-height
C15_Witness ==
    /\ pc = "lean"
    /\ controller_mutables.crouch_degree = Scale
    /\ collider = Capsule(Div(controller.height, 10), controller.radius)

(***************************************************************************)
(* Claims on the view angles                                               *)
(***************************************************************************)
\* C16: from the default pitch, after any sequence of input updates with any
\* pointer deltas, pitch is within [-pi/2 + eps, pi/2 - eps], eps being
\* ANGLE_EPSILON.
C16_PitchInRange ==
    /\ input.pitch >= -FRAC_PI_2 + ANGLE_EPSILON
    /\ input.pitch <= FRAC_PI_2 - ANGLE_EPSILON

\* an input update has just stopped the pitch at its upper limit
C16_Witness ==
    /\ pc = "look"
    /\ input.pitch = FRAC_PI_2 - ANGLE_EPSILON

\* C17: from the default yaw, after every input update the stored yaw lies
\* in (-pi, pi]: the previous yaw minus delta_x * sensitivity, brought back
\* into that interval whenever its magnitude exceeds pi.
C17_YawWrappedIntoHalfTurns ==
    pc = "look" => (input.yaw > -PI /\ input.yaw <= PI)

(***************************************************************************)
(* Claims on the wish direction                                            *)
(***************************************************************************)
\* C18: the wish direction of a move tick is the zero vector or a unit vector
\* (to within 3/960, the rounding of the model's arithmetic); it is divided
\* by its length only when that length exceeds f32::EPSILON, so with no
\* movement input it stays the zero vector and the acceleration impulse is
\* zero, whatever the yaw, the velocity, the wish speed and the rate.
C18_WishDirectionUnitOrZero ==
    call.fn \in {"wish", "done"}
    => LET len == Length(call.wish_direction)
       IN  /\ call.wish_direction = ZERO \/ Abs(len - Scale) <= 3
           /\ call.wish_direction = ZERO <=> call.movement = ZERO
           /\ (call.movement = ZERO /\ call.fn = "done")
              => (call.add = ZERO /\ call.impulse = ZERO)

\* the step was called with no movement input, a wish speed and a velocity,
\* and returned no impulse
C18_Witness ==
    /\ call.fn = "done"
    /\ call.movement = ZERO
    /\ call.wish_speed > 0
    /\ call.velocity # ZERO
    /\ call.wish_direction = ZERO
    /\ call.impulse = ZERO

(***************************************************************************)
(* Claims on the scroll modifiers                                          *)
(***************************************************************************)
\* C19: lean_degree_mod and crouch_degree_mod are within [0, 1] after any
\* sequence of wheel events and key states; a scroll that would leave the
\* range is clamped, and the frame carries on as any other (no error state).
C19_ModifiersInRange ==
    /\ input.lean_degree_mod >= 0
    /\ input.lean_degree_mod <= Scale
    /\ input.crouch_degree_mod >= 0
    /\ input.crouch_degree_mod <= Scale
    /\ pc # "panic"

\* the wheel has been spun past both ends: the lean modifier was driven from
\* 0 up to 1 and the crouch modifier from 1 down to 0
C19_Witness ==
    /\ pc = "fixed"
    /\ input.lean_degree_mod = Scale
    /\ input.crouch_degree_mod = 0

C25_RenderIsProjection ==
    [][ pc = "render"
        => /\ transform' = transform
           /\ collider' = collider
           /\ velocity' = velocity
           /\ controller_mutables' = controller_mutables
           /\ external_force' = external_force
           /\ damping' = damping
           /\ spatial_hits' = spatial_hits
           /\ input' = input
           /\ controller' = controller ]_vars

\* a render has just lowered the camera of a crouched controller
C25_Witness ==
    /\ pc = "scroll"
    /\ controller_mutables.crouch_degree > 0
    /\ render_transform.height = collider_y_offset(collider) + CameraHeightOffset
    /\ render_transform.height < Div(controller.height, 2) + controller.radius

\* C26: the fixed-tick systems (probe, move, crouch, lean) never modify the
\* input snapshot or the controller config, nor the view angles and the
\* render transform; the probe writes the probe result only, and the solver
\* writes only ground_tick, crouch_degree, lean_degree, velocity, impulse,
\* damping, transform and collider.
C26_TickWritesOwnState ==
    [][ (pc \in {"probe", "move", "crouch", "lean"})
        => /\ input' = input
           /\ controller' = controller
           /\ render_transform' = render_transform
           /\ controller_mutables'.pitch = controller_mutables.pitch
           /\ controller_mutables'.yaw = controller_mutables.yaw
           /\ (pc = "probe")
              => (/\ controller_mutables' = controller_mutables
                  /\ velocity' = velocity
                  /\ external_force' = external_force
                  /\ damping' = damping
                  /\ collider' = collider
                  /\ transform' = transform)
           /\ (pc # "probe") => (spatial_hits' = spatial_hits)
      ]_vars

\* a whole fixed tick has run with crouch held under a ceiling: the request
\* is still in the input snapshot
C26_Witness ==
    /\ pc = "physics"
    /\ input.crouch
    /\ spatial_hits.top_up
    /\ controller_mutables.crouch_degree > 0
    /\ controller = GoldenControllerDefault

(***************************************************************************)
(* Claims on the camera                                                    *)
(***************************************************************************)
\* C30: after fps_controller_render the render translation is the logical
\* translation raised by collider_y_offset (half_height + radius for the
\* capsule) plus the camera height offset, and the render rotation is the
\* logical rotation (yaw, roll) with the pitch composed onto it; the camera
\* height is no larger for any deeper crouch_degree.
C30_CameraFollowsPlayer ==
    pc = "scroll"
    => /\ render_transform.translation = transform.translation
       /\ render_transform.height
             = collider.half_height + collider.radius + CameraHeightOffset
       /\ render_transform.rotation
             = [yaw |-> transform.rotation.yaw, roll |-> transform.rotation.roll,
                pitch |-> controller_mutables.pitch]
       /\ collider.half_height
             = CurrentHeight(controller, controller_mutables.crouch_degree)
       /\ \A c2 \in CrouchGrid :
             c2 >= controller_mutables.crouch_degree
             => CurrentHeight(controller, c2) + controller.radius + CameraHeightOffset
                   <= render_transform.height

\* a render has just run with the controller fully crouched: the camera is at
\* height / 10 + radius above the logical position
C30_Witness ==
    /\ pc = "scroll"
    /\ controller_mutables.crouch_degree = Scale
    /\ render_transform.height = Div(controller.height, 10) + controller.radius

(***************************************************************************)
(* Claims on the size of a tick's change                                   *)
(***************************************************************************)
\* C23 as stated: in every step of a fixed tick crouch_degree changes by at
\* most crouch_speed * dt and lean_degree by at most leaning_speed * dt,
\* whatever the probe reports.
C23_SteppedNeverSnapped ==
    [][ /\ Abs(controller_mutables'.crouch_degree - controller_mutables.crouch_degree)
              <= Div(controller.crouch_speed, FPS)
        /\ Abs(controller_mutables'.lean_degree - controller_mutables.lean_degree)
              <= Div(controller.leaning_speed, FPS) ]_vars

\* C23, amended: crouch_degree changes only in the crouch system and by at
\* most crouch_speed * dt; lean_degree changes only in the lean system, which
\* first brings it inside the wall distances of this tick's probe at once and
\* then moves it by at most leaning_speed * dt from there.
C23_SteppedFromWallClamp ==
    [][ /\ (pc = "crouch")
              => Abs(controller_mutables'.crouch_degree
                        - controller_mutables.crouch_degree)
                    <= Div(controller.crouch_speed, FPS)
        /\ (pc = "lean")
              => Abs(controller_mutables'.lean_degree
                        - WallClamp(spatial_hits, controller_mutables.lean_degree))
                    <= Div(controller.leaning_speed, FPS)
        /\ (pc # "crouch")
              => controller_mutables'.crouch_degree = controller_mutables.crouch_degree
        /\ (pc # "lean")
              => controller_mutables'.lean_degree = controller_mutables.lean_degree
      ]_vars

\* a wall has appeared closer than the lean reached in the open, while the
\* controller is part of the way down: the lean system is about to run
C23_Witness ==
    /\ pc = "lean"
    /\ spatial_hits.left_wall_dist[1]
    /\ controller_mutables.lean_degree
          < -spatial_hits.left_wall_dist[2] - Div(controller.leaning_speed, FPS)
    /\ controller_mutables.crouch_degree > 0
    /\ controller_mutables.crouch_degree < Scale

(***************************************************************************)
(* Claims on the velocity along the ground normal                          *)
(***************************************************************************)
\* dot(velocity, bottom_hit_normal) without the fixed-point division: exact,
\* in units of 1 / (Scale * Scale)
NormalComponent ==
    velocity.x * spatial_hits.bottom_hit_normal.x
    + velocity.y * spatial_hits.bottom_hit_normal.y
    + velocity.z * spatial_hits.bottom_hit_normal.z

\* C24 as stated: after a move tick on ground with traction the velocity has
\* no component along the ground normal, on level and on sloped ground.
C24_NoNormalComponent ==
    (pc = "crouch" /\ move_locals.has_traction) => NormalComponent = 0

\* C24, amended: after a move tick on ground with traction the component of
\* the velocity along the ground normal is 0 on level ground, and on a slope
\* at most what the zeroing of |x| and |z| below 0.004 leaves behind:
\* |dot(velocity, normal)| <= 0.004 * (|normal.x| + |normal.z|).
C24_NormalComponentWithinWobble ==
    (pc = "crouch" /\ move_locals.has_traction)
    => /\ Abs(NormalComponent) * 250
             <= Scale * (Abs(spatial_hits.bottom_hit_normal.x)
                         + Abs(spatial_hits.bottom_hit_normal.z))
       /\ spatial_hits.bottom_hit_normal = UnitY => velocity.y = 0

\* a move tick on the slope has cancelled the normal component and then
\* zeroed the small z that the cancelling left
C24_Witness ==
    /\ pc = "crouch"
    /\ move_locals.has_traction
    /\ spatial_hits.bottom_hit_normal = ThirdsSlope[1].normal
    /\ velocity = Vec3(0, -3, 0)

(***************************************************************************)
(* Claims on the collider shape                                            *)
(***************************************************************************)
\* what a run holds before any probe or solver step: the spawn values
NoTickYet ==
    /\ frame_ticks = 0
    /\ spatial_hits = GoldenControllerSpatialHitsDefault
    /\ controller_mutables.crouch_degree = 0
    /\ controller_mutables.lean_degree = 0
    /\ controller_mutables.ground_tick = 0
    /\ velocity = ZERO
    /\ external_force = ZERO
    /\ move_locals = NoLocals
    /\ collider.half_height = Div(controller.height, 2)

C21_EachControllerOnItsOwn ==
    (call.fn = "input" /\ call.order = <<>>)
    => \A p \in {1, 2} :
          call.inputs[p] = InputAfter(call.before[p], GoldenControllerKeysDefault,
                                      call.key_input, call.mouse)

\* C27: after fps_controller_input every movement axis and the lean axis is
\* pressed(positive key) - pressed(negative key): one of -1, 0, 1, and 0 when
\* both keys or neither key of the axis is down.
C27_AxisIsKeyDifference ==
    (call.fn = "input" /\ call.order = <<>>)
    => \A p \in {1, 2} :
          \A axis \in { <<call.inputs[p].movement.x, "KeyD", "KeyA">>,
                        <<call.inputs[p].movement.z, "KeyW", "KeyS">>,
                        <<call.inputs[p].lean, "KeyE", "KeyQ">> } :
             LET pos == axis[2] \in call.key_input
                 neg == axis[3] \in call.key_input
             IN  /\ axis[1] \in {-Scale, 0, Scale}
                 /\ (pos /\ ~neg) => axis[1] = Scale
                 /\ (neg /\ ~pos) => axis[1] = -Scale
                 /\ (pos = neg) => axis[1] = 0

\* both keys of the forward axis and one key of the side axis are down
C27_Witness ==
    /\ call.fn = "input"
    /\ call.order = <<>>
    /\ call.key_input = {"KeyW", "KeyS", "KeyD"}
    /\ call.inputs[1].movement = Vec3(Scale, 0, 0)
    /\ call.inputs[2].movement = Vec3(Scale, 0, 0)

(***************************************************************************)
(* Claims on settling                                                      *)
(***************************************************************************)
\* from some point on the lean input, its modifier and both wall distances
\* stay as they are
LeanInputsSettle ==
    <>[][ /\ input'.lean = input.lean
          /\ input'.lean_degree_mod = input.lean_degree_mod
          /\ spatial_hits'.left_wall_dist = spatial_hits.left_wall_dist
          /\ spatial_hits'.right_wall_dist = spatial_hits.right_wall_dist ]_vars

\* C28: once the lean input, lean_degree_mod and both wall probe results
\* stay constant, lean_degree reaches its target after finitely many ticks
\* and stays there for good, without oscillating around it; the target is
\* the input, replaced by the wall distance on the side leaned to when a wall
\* is hit there, scaled by 1 - lean_degree_mod.
C28_LeanSettlesAtTarget ==
    LeanInputsSettle
    => <>[](controller_mutables.lean_degree = TargetLean(input, spatial_hits))

\* leaning right against the wall with the modifier at a half: lean_degree
\* rests at half the wall distance, short of the wall
C28_Witness ==
    /\ pc = "physics"
    /\ input.lean = Scale
    /\ input.lean_degree_mod = Fx(1, 2)
    /\ spatial_hits.right_wall_dist = <<TRUE, RightWall>>
    /\ controller_mutables.lean_degree = Div(RightWall, 2)
    /\ transform.translation = ZERO

C31_JumpHeldUsesAirLogic ==
    [][ (pc = "move")
        => LET speed == Min(Length(WishVector(input, controller)),
                            move_locals'.max_speed)
               air_speed == Min(speed, controller.air_speed_cap)
               air_logic == ~spatial_hits.bottom_down \/ input.jump
           IN  /\ move_locals'.rate = IF air_logic THEN controller.air_acceleration
                                      ELSE controller.acceleration
               /\ move_locals'.wish_speed = IF air_logic THEN air_speed ELSE speed
               /\ move_locals'.add =
                     acceleration(move_locals'.wish_direction,
                                  move_locals'.wish_speed, move_locals'.rate,
                                  velocity, FPS)
      ]_vars

\* a move tick on the ground with forward and jump held has run: the step
\* was taken at the air rate towards the air speed cap
C31_Witness ==
    /\ pc = "crouch"
    /\ spatial_hits.bottom_down
    /\ input.jump
    /\ input.movement # ZERO
    /\ move_locals.rate = controller.air_acceleration
    /\ move_locals.wish_speed = controller.air_speed_cap
    /\ move_locals.add # ZERO

\* the impulse a move tick adds beyond that of its acceleration step
ExtraImpulse ==
    VSub(VSub(external_force', external_force),
         TimesMass(move_locals'.add, controller.mass))

\* C32: a move tick applies the upward impulse mass * jump_force exactly when
\* the ground probe hit, the ground normal passes the traction cutoff, jump
\* is held and the vertical velocity left by the normal cancel is below 1.0;
\* it applies it once, and never on an airborne or sliding tick.
C32_JumpImpulseExactlyWhen ==
    [][ (pc = "move")
        => LET traction == /\ spatial_hits.bottom_down
                           /\ spatial_hits.bottom_hit_normal.y
                                 > controller.traction_normal_cutoff
               jumps == /\ traction
                        /\ input.jump
                        /\ velocity'.y < Scale
           IN  /\ traction => velocity'.y
                                 = CancelNormal(velocity,
                                                spatial_hits.bottom_hit_normal).y
               /\ input.jump
                     => ExtraImpulse
                           = IF jumps
                             THEN Vec3(0, controller.jump_force * controller.mass, 0)
                             ELSE ZERO
               /\ (move_locals'.jump = 1) = jumps
      ]_vars

\* a tick with traction and jump held has applied the jump impulse
C32_Witness ==
    /\ pc = "crouch"
    /\ move_locals.has_traction
    /\ input.jump
    /\ velocity.y < Scale
    /\ move_locals.jump = 1
    /\ external_force.y >= controller.jump_force * controller.mass

\* C33: a move tick applies the ground-height spring impulse exactly when the
\* ground probe hit, the ground normal passes the traction cutoff and jump is
\* not held; never on an airborne tick, a sliding tick or with jump held.
C33_SpringExactlyWhen ==
    [][ (pc = "move")
        => LET traction == /\ spatial_hits.bottom_down
                           /\ spatial_hits.bottom_hit_normal.y
                                 > controller.traction_normal_cutoff
               springs == traction /\ ~input.jump
           IN  /\ ~input.jump
                     => ExtraImpulse
                           = IF springs
                             THEN SpringImpulse(controller, spatial_hits, velocity)
                             ELSE ZERO
               /\ input.jump => ExtraImpulse.y \in {0, controller.jump_force * controller.mass}
               /\ (move_locals'.spring = 1) = springs
      ]_vars

\* a tick on level ground without jump has pushed the body up by the spring
C33_Witness ==
    /\ pc = "crouch"
    /\ move_locals.has_traction
    /\ ~input.jump
    /\ move_locals.spring = 1
    /\ external_force.y > 0

(***************************************************************************)
(* Claims on the lean offset                                               *)
(***************************************************************************)
\* C34: with the yaw constant and no wall hit on any tick, the translation
\* fps_controller_lean has applied in total is lean_side_impulse * dt *
\* (lean_degree - initial lean_degree) along the right vector (the initial
\* lean_degree is 0; translations are in units of 1 / (Scale * Scale * FPS)),
\* so it is zero again whenever lean_degree is back at its starting value.
C34_LeanOffsetFollowsDegree ==
    LET right_dir == RightDir(input.yaw)
        travelled == controller.lean_side_impulse * controller_mutables.lean_degree
    IN  /\ transform.translation
              = Vec3(right_dir.x * travelled, 0, right_dir.z * travelled)
        /\ controller_mutables.lean_degree = 0 => transform.translation = ZERO

\* the body has leaned out all the way to the left and been moved with it
C34_Witness ==
    /\ pc = "physics"
    /\ controller_mutables.lean_degree = -Scale
    /\ transform.translation.x # 0
    /\ input.yaw = GoldenControllerInputDefault.yaw

(***************************************************************************)
(* Claims on the wheel                                                     *)
(***************************************************************************)
\* C35: scroll_events changes lean_degree_mod only in a frame where the lean
\* input is above 0.1 in size, changes crouch_degree_mod only in a frame
\* where the controller is not leaning and crouch is held, changes nothing
\* else of the snapshot, and never changes both modifiers in one frame.
C35_WheelMovesOneModifier ==
    [][ (pc = "scroll")
        => LET leaning == Abs(input.lean) * 10 > Scale
               lean_moved == input'.lean_degree_mod # input.lean_degree_mod
               crouch_moved == input'.crouch_degree_mod # input.crouch_degree_mod
           IN  /\ lean_moved => leaning
               /\ crouch_moved => (~leaning /\ input.crouch)
               /\ ~(lean_moved /\ crouch_moved)
               /\ input' = [input EXCEPT
                              !.lean_degree_mod = input'.lean_degree_mod,
                              !.crouch_degree_mod = input'.crouch_degree_mod]
      ]_vars

\* the wheel was spun with lean and crouch both held: the lean modifier went
\* all the way up and the crouch modifier is where it started
C35_Witness ==
    /\ pc = "fixed"
    /\ input.crouch
    /\ input.lean = -Scale
    /\ input.lean_degree_mod = Scale
    /\ input.crouch_degree_mod = Scale

(***************************************************************************)
(* Claims on what the move tick depends on                                 *)
(***************************************************************************)
\* C36: the velocity, the impulse and the damping a move tick produces do not
\* depend on ground_tick: a controller with the same config, input, probe
\* result, velocity and pending impulse but any other ground_tick produces
\* the same three.
C36_OutputIgnoresGroundTick ==
    [][ (pc = "move")
        => \A ground_tick \in 0..U8Max :
              LET other == MoveAfter(input, controller, spatial_hits,
                                     [controller_mutables EXCEPT
                                        !.ground_tick = ground_tick],
                                     velocity, external_force)
              IN  /\ other.velocity = velocity'
                  /\ other.external_force = external_force'
                  /\ other.damping = damping'
      ]_vars

\* a move tick has jumped on the tick of landing, with ground_tick just
\* counted up from 0
C36_Witness ==
    /\ pc = "crouch"
    /\ controller_mutables.ground_tick = 1
    /\ move_locals.jump = 1
    /\ external_force # ZERO

====
